---- MODULE Spec2Model ----
(***************************************************************************)
(* Compilation of @jit extension classes (numba/exttypes/jitclass.py).     *)
(*                                                                         *)
(* create_extension(env, py_class, flags) builds a JitExtensionCompiler    *)
(* and drives it through infer, finalize_tables, validate and compile.     *)
(* compile runs compile_methods, which walks the method table slot by      *)
(* slot.  Classes compiled earlier are kept as finalized extension types;  *)
(* each later class derives from the class that was finalized last.        *)
(*                                                                         *)
(* Slot indices are those of the code (0-based); the tables are TLA+       *)
(* sequences, so slot i of a table t is t[i + 1].                          *)
(***************************************************************************)
EXTENDS Integers, Sequences, FiniteSets, TLC

\* Length of the inheritance chain that is compiled, base class first.
MaxClasses == 3
\* Number of attributes one class body declares.
MaxOwnAttrs == 1
\* The cap N on the passes of one infer phase.
MaxInferPasses == 2
\* Source positions handed to update_pos: 1..MaxPos.
MaxPos == 2
\* Calls of the wrapped builder through one LLVMIRBuilder.
MaxEmits == 3
\* Width in bits of a native integer field (scaled down from the C width).
NativeBits == 3

MethodNames == {"greet", "wave"}
AttrNames == {"count", "name"}
AttrTypes == {"int", "text"}

\* py_class has no compiled base class: get_method_pointers returns None.
NoParent == 0
\* None, as the value of a method pointer that has not been set.
NoPointer == <<>>
\* No exception is propagating.
NoError == [type |-> "none", method |-> "none", origin |-> "none"]
\* Size of one aligned native field of the attribute record.
FieldSize == 8

\* The attributes of the wrapped builder: methods and plain data.
CallableAttrs == {"add", "ret"}
DataAttrs == {"basic_block"}
\* The positions update_pos is called with.
Positions == 1..MaxPos
\* What the wrapped builder itself may hold in an attribute named pos.
BuilderPositions == 0..MaxPos
\* No LLVMIRBuilder has been constructed.
NoBuilder == [made |-> FALSE, pos |-> <<>>, calls |-> 0]
\* No attribute of the LLVMIRBuilder has been read or called.
NoOutcome == [kind |-> "none", value |-> <<>>]
\* The first IR line number get_annotations hands out.
FirstLine == 1

\* The integer fields of the native attribute record of an instance.
NativeFields == {"x", "y"}
\* A native integer field holds MinNative..MaxNative.
MaxNative == 2^(NativeBits - 1) - 1
MinNative == -(2^(NativeBits - 1))
\* The values handed to a setter: integers within and beyond the range of
\* a field, and a value that is no number.
SetValues ==
    {[kind |-> "int", v |-> n] : n \in (MinNative - 2)..(MaxNative + 2)}
       \cup {[kind |-> "text", v |-> 0]}
\* No accessor has been called.
NoCall == [kind |-> "none", value |-> 0]
\* No set through a descriptor has returned.
NoSet == [done |-> FALSE, field |-> "x", value |-> 0]

VARIABLES
    registry,        \* finalized extension types, by class id
    pc,              \* position of create_extension
    py_class,        \* the class handed to create_extension
    class_dict,      \* self.class_dict: own method name -> "function" | "wrapper"
    methods,         \* self.methods: the method table, one record per slot
    attribute_table, \* ext_type.attribute_table after finalize
    i,               \* the loop index of compile_methods
    runs,            \* pipeline.run_env calls of this run, per method name
    phase_log,       \* calls and returns of the phases of this run
    error,           \* the exception that left create_extension
    result,          \* the value create_extension returned (0: nothing)
    passes,          \* inference passes run by the current infer phase
    unresolved,      \* the engine has not returned concrete types only
    failing,         \* the validators that find a violation in the class
    validated,       \* the validators validate has run, in order
    violations,      \* the violations validate has collected, in order
    builder,         \* the wrapped builder: its own pos attribute, its calls
    pos,             \* self.pos of the LLVMIRBuilder (<<>>: not set)
    captured,        \* self.captured: items (pos, instrs) as first inserted
    held,            \* the emit closures fetched from the LLVMIRBuilder
    outcome,         \* how the last attribute read or emit call ended
    supplied,        \* the positions update_pos has been called with
    annotations,     \* what get_annotations returned (<<>>: not called)
    numba_attrs,     \* self._numba_attrs: the native record of one instance
    descr_out,       \* how the last call of an accessor ended
    last_set         \* the last set through a descriptor that returned

capture_vars == <<builder, pos, captured, held, outcome, supplied, annotations>>

infer_vars == <<passes, unresolved>>

validate_vars == <<failing, validated, violations>>

jit_vars == <<registry, pc, py_class, class_dict, methods, attribute_table, i,
              runs, phase_log, error, result, infer_vars, validate_vars>>

descr_vars == <<numba_attrs, descr_out, last_set>>

vars == <<jit_vars, capture_vars, descr_vars>>

----------------------------------------------------------------------------
\* Helpers on sequences.

Range(s) == {s[k] : k \in 1..Len(s)}

Names(t) == {t[k].name : k \in 1..Len(t)}

\* The entries of s that are in keep, in the order of s.
RECURSIVE SelectNames(_, _)
SelectNames(s, keep) ==
    IF s = <<>> THEN <<>>
    ELSE IF Head(s) \in keep THEN <<Head(s)>> \o SelectNames(Tail(s), keep)
    ELSE SelectNames(Tail(s), keep)

----------------------------------------------------------------------------
\* The classes handed to create_extension.

\* Sequences over S without repetition, of length at most n.
InjectiveSeqs(S, n) ==
    {s \in UNION {[1..k -> S] : k \in 0..n} :
        \A a, b \in 1..Len(s) : s[a] = s[b] => a = b}

\* The methods a class body defines, in declared order.
MethodDecls == InjectiveSeqs(MethodNames, Cardinality(MethodNames))

\* The attributes a class body declares, in declared order.
AttrDecls ==
    {s \in UNION {[1..k -> [name : AttrNames, type : AttrTypes]] :
                     k \in 0..MaxOwnAttrs} :
        \A a, b \in 1..Len(s) : s[a].name = s[b].name => a = b}

----------------------------------------------------------------------------
\* Collaborators of jitclass.py (compileclass, ordering, utils, pipeline).

\* utils.get_method_pointers(py_class): the (name, pointer) table of the
\* compiled base class; is_none when there is no such class.
get_method_pointers(reg, cls) ==
    IF cls.parent = NoParent
    THEN [is_none |-> TRUE, table |-> <<>>]
    ELSE [is_none |-> FALSE, table |-> reg[cls.parent].vtab]

\* The attribute table of the compiled base class.
ParentAttributes(reg, cls) ==
    IF cls.parent = NoParent THEN <<>> ELSE reg[cls.parent].attributes

\* The first offset after the fields of table t.
NextOffset(t) == IF t = <<>> THEN 0 ELSE t[Len(t)].offset + FieldSize

\* Lay the declarations decls out after the fields of table t.
RECURSIVE AppendFields(_, _)
AppendFields(t, decls) ==
    IF decls = <<>> THEN t
    ELSE AppendFields(
           Append(t, [name   |-> Head(decls).name,
                      type   |-> Head(decls).type,
                      offset |-> NextOffset(t)]),
           Tail(decls))

\* The declarations of decls whose name is not a field of table t.
RECURSIVE NewDecls(_, _)
NewDecls(t, decls) ==
    IF decls = <<>> THEN <<>>
    ELSE IF Head(decls).name \in Names(t) THEN NewDecls(t, Tail(decls))
    ELSE <<Head(decls)>> \o NewDecls(t, Tail(decls))

\* ordering.extending: the parent's attributes first, at their offsets,
\* followed by the new attributes in declared order.
extending(parent_attrs, decls) ==
    AppendFields(parent_attrs, NewDecls(parent_attrs, decls))

\* merge_with_parent fails when the class redeclares a parent attribute
\* with another type.
AttributeConflict(parent_attrs, decls) ==
    \E d \in Range(decls), a \in Range(parent_attrs) :
        d.name = a.name /\ d.type # a.type

\* assign_slots with the methods of the class body placed first and the
\* parent's remaining methods after them.
AssignSlotsOwnFirst(own_methods, parent_pointers) ==
    LET rest == SelectNames([k \in 1..Len(parent_pointers) |->
                                parent_pointers[k].name],
                            Names(parent_pointers) \ Range(own_methods))
        order == own_methods \o rest
    IN [k \in 1..Len(order) |-> [name |-> order[k], lfunc_pointer |-> NoPointer]]

\* assign_slots: every method of the parent's table keeps its slot index,
\* new methods are appended in declared order.  No slot holds a pointer
\* before compile.
AssignSlots(own_methods, parent_pointers) ==
    LET inherited == [k \in 1..Len(parent_pointers) |->
                        [name |-> parent_pointers[k].name,
                         lfunc_pointer |-> NoPointer]]
        fresh == SelectNames(own_methods,
                             Range(own_methods) \ Names(parent_pointers))
    IN inherited \o [k \in 1..Len(fresh) |->
                        [name |-> fresh[k], lfunc_pointer |-> NoPointer]]

\* The inference loop that stops one pass after the cap.
InferLoopEndsLate(p, u) == ~u \/ p > MaxInferPasses

\* The inference loop ends when the engine returned concrete types only
\* (u: it returned unresolved type variables) or when the cap on the number
\* of passes is reached.
InferLoopEnds(p, u) == ~u \/ p >= MaxInferPasses

\* validate that stops at the first validator that reports a violation.
RECURSIVE RunValidatorsShortCircuit(_, _, _, _)
RunValidatorsShortCircuit(todo, F, ran, found) ==
    IF todo = <<>> \/ found # <<>>
    THEN [validated |-> ran, violations |-> found]
    ELSE RunValidatorsShortCircuit(
             Tail(todo), F, Append(ran, Head(todo)),
             IF Head(todo) \in F THEN Append(found, Head(todo)) ELSE found)

\* validate calls every registered validator in turn; the validators in F
\* report a violation of the class, and every violation is collected.
RECURSIVE RunValidators(_, _, _, _)
RunValidators(todo, F, ran, found) ==
    IF todo = <<>>
    THEN [validated |-> ran, violations |-> found]
    ELSE RunValidators(
             Tail(todo), F, Append(ran, Head(todo)),
             IF Head(todo) \in F THEN Append(found, Head(todo)) ELSE found)

\* The entry point the pipeline produces for method name of class id.
EntryPoint(id, name) == <<id, name>>

\* The exception pipeline.run_env raises when the compilation of method
\* name fails: it names the method.
PipelineFailure(name) ==
    [type |-> "MethodCompilationError", method |-> name,
     origin |-> "pipeline.run_env"]

\* build_vtab: the vtable holds, slot by slot, the pointer of the method.
build_vtab(ms) ==
    [k \in 1..Len(ms) |-> [name |-> ms[k].name, pointer |-> ms[k].lfunc_pointer]]

\* The extension type compile() assembles.
build_extension_type(cls, attrs, ms) ==
    [parent |-> cls.parent, attributes |-> attrs, vtab |-> build_vtab(ms)]

----------------------------------------------------------------------------
\* jitclass.py

\* The validators registered on JitExtensionCompiler.
Validators == <<"method_validators", "exttype_validators">>

Phases == <<"infer", "finalize_tables", "validate", "compile">>

\* create_extension, lines 150-153, with the validate call dropped.
NextPhaseSkipsValidate(p) ==
    CASE p = "infer"           -> "finalize_tables"
      [] p = "finalize_tables" -> "compile"
      [] p = "validate"        -> "compile"
      [] p = "compile"         -> "returned"

\* create_extension, lines 150-155: the statement that follows the call of
\* phase p.
NextPhase(p) ==
    CASE p = "infer"           -> "finalize_tables"
      [] p = "finalize_tables" -> "validate"
      [] p = "validate"        -> "compile"
      [] p = "compile"         -> "returned"

\* create_extension with every phase call wrapped in a handler that
\* swallows the exception.
AfterPhaseSwallows(p, raised) == NextPhase(p)

\* create_extension with a handler around the finalize_tables call only.
AfterPhaseSwallowsFinalize(p, raised) ==
    IF raised /\ p # "finalize_tables" THEN "raised" ELSE NextPhase(p)

\* create_extension has no handler: an exception raised by a phase leaves
\* create_extension, otherwise the next statement runs.
AfterPhase(p, raised) == IF raised THEN "raised" ELSE NextPhase(p)

\* finalize with the new attributes laid out before the parent's.
finalize_own_first(parent_attrs, decls) ==
    AppendFields(AppendFields(<<>>, NewDecls(parent_attrs, decls)),
                 parent_attrs)

\* JitAttributeBuilder.finalize: create_attribute_ordering(ordering.extending).
finalize(parent_attrs, decls) == extending(parent_attrs, decls)

\* JitExtensionCompiler.inherit_method: the exception it raises ("none"
\* when it returns) and the pointer it returns.
inherit_method(parent_method_pointers, method_name, slot_idx) ==
    IF parent_method_pointers.is_none
    THEN [raises |-> "AssertionError", pointer |-> NoPointer]
    ELSE IF slot_idx >= Len(parent_method_pointers.table)
    THEN [raises |-> "IndexError", pointer |-> NoPointer]
    ELSE IF parent_method_pointers.table[slot_idx + 1].name # method_name
    THEN [raises |-> "AssertionError", pointer |-> NoPointer]
    ELSE [raises |-> "none",
          pointer |-> parent_method_pointers.table[slot_idx + 1].pointer]

\* compile_methods with the slots counted from 1 (enumerate(self.methods, 1)).
InheritArgsFromOne(ms, idx) ==
    [method_name |-> ms[idx + 1].name, slot_idx |-> idx + 1]

\* compile_methods, lines 90-92: the arguments of the call of inherit_method
\* for slot idx.
InheritArgs(ms, idx) == [method_name |-> ms[idx + 1].name, slot_idx |-> idx]

\* compile_methods, lines 105-106 left out: the pointer is not stored.
MethodWriteNothing(ms, reg, cls, idx, pointer) ==
    [methods |-> ms, registry |-> reg]

\* The pointer is stored through a table shared with the parent: the
\* parent's slot is overwritten too.
MethodWriteThroughParent(ms, reg, cls, idx, pointer) ==
    [methods  |-> [ms EXCEPT ![idx + 1].lfunc_pointer = pointer],
     registry |-> IF cls.parent # NoParent /\ idx < Len(reg[cls.parent].vtab)
                  THEN [reg EXCEPT ![cls.parent].vtab[idx + 1].pointer = pointer]
                  ELSE reg]

\* The compiled method is appended as a new slot instead of replacing the
\* record of slot idx.
MethodWriteAppends(ms, reg, cls, idx, pointer) ==
    [methods  |-> Append(ms, [name |-> ms[idx + 1].name,
                              lfunc_pointer |-> pointer]),
     registry |-> reg]

\* compile_methods, lines 96 and 105-106: the pointer is stored in the
\* method record of class_dict, which is the record of slot idx of the
\* table of the class under compilation; no finalized type is written.
MethodWrite(ms, reg, cls, idx, pointer) ==
    [methods  |-> [ms EXCEPT ![idx + 1].lfunc_pointer = pointer],
     registry |-> reg]

\* compile_methods, lines 108-109: the class dictionary entry becomes the
\* compiled wrapper.
WrapEntry(dict, name) == [dict EXCEPT ![name] = "wrapper"]

\* compile_methods with the pipeline call wrapped in a handler that goes
\* on with the next slot.
RunEnvRaisedContinues(idx) == [pc |-> "compile_methods", i |-> idx + 1]

\* compile_methods, line 103: pipeline.run_env is called outside any
\* handler, so its exception ends the loop at slot idx and leaves compile.
RunEnvRaised(idx) == [pc |-> AfterPhase("compile", TRUE), i |-> idx]

\* The loop of compile_methods that ends after the first slot.
LoopDoneAfterFirst(idx, ms) == idx >= 1 \/ idx >= Len(ms)

\* The loop of compile_methods is over when idx slots of ms are handled.
LoopDone(idx, ms) == idx >= Len(ms)

Log(kind, p) == <<kind, p>>

----------------------------------------------------------------------------
\* The state machine.

\* The id the class under compilation gets when it is finalized.
CurId == py_class.parent + 1

NoClass == [parent |-> NoParent, methods |-> <<>>, attrs |-> <<>>]

Init ==
    /\ registry = <<>>
    /\ pc = "idle"
    /\ py_class = NoClass
    /\ class_dict = <<>>
    /\ methods = <<>>
    /\ attribute_table = <<>>
    /\ i = 0
    /\ runs = [n \in MethodNames |-> 0]
    /\ phase_log = <<>>
    /\ error = NoError
    /\ result = 0
    /\ passes = 0
    /\ unresolved = FALSE
    /\ failing = {}
    /\ validated = <<>>
    /\ violations = <<>>
    /\ builder = NoBuilder
    /\ pos = <<>>
    /\ captured = <<>>
    /\ held = {}
    /\ outcome = NoOutcome
    /\ supplied = {}
    /\ annotations = <<>>
    /\ numba_attrs = [f \in NativeFields |-> 0]
    /\ descr_out = NoCall
    /\ last_set = NoSet

\* create_extension, lines 139-148: the extension type and the compiler
\* are constructed for py_class.  The classes form one inheritance chain:
\* py_class derives from the class that was finalized last (from no
\* compiled class when there is none yet).
Start ==
    /\ pc = "idle"
    /\ Len(registry) < MaxClasses
    /\ \E ms \in MethodDecls, as \in AttrDecls :
          /\ py_class' = [parent |-> Len(registry), methods |-> ms, attrs |-> as]
          /\ class_dict' = [n \in Range(ms) |-> "function"]
    /\ passes' = 0
    /\ unresolved' = TRUE
    /\ failing' = {}
    /\ validated' = <<>>
    /\ violations' = <<>>
    /\ methods' = <<>>
    /\ attribute_table' = <<>>
    /\ i' = 0
    /\ runs' = [n \in MethodNames |-> 0]
    /\ phase_log' = <<>>
    /\ error' = NoError
    /\ result' = 0
    /\ pc' = "infer"
    /\ UNCHANGED registry
    /\ UNCHANGED capture_vars
    /\ UNCHANGED descr_vars

\* Phase p is called and raises exception e ("none": it returns).
PhaseEnds(p, e) ==
    /\ phase_log' = phase_log \o
          <<Log("call", p), Log(IF e = "none" THEN "return" ELSE "raise", p)>>
    /\ error' = IF e = "none" THEN NoError
                ELSE [type |-> e, method |-> "none", origin |-> p]
    /\ pc' = AfterPhase(p, e # "none")

\* extension_compiler.infer(): one inference pass over the attributes and
\* the methods of the class.  The inference engine returns concrete types
\* and infer returns; or it returns a set of unresolved type variables and
\* infer runs another pass unless the cap is reached; or the adapter finds a
\* type that stays a free variable.
Infer ==
    /\ pc = "infer"
    /\ \/ /\ PhaseEnds("infer", "none")
          /\ passes' = 0
          /\ unresolved' = FALSE
       \/ /\ passes' = passes + 1
          /\ unresolved' = TRUE
          /\ IF InferLoopEnds(passes + 1, TRUE)
             THEN PhaseEnds("infer", "InferenceStalledError")
             ELSE UNCHANGED <<pc, phase_log, error>>
       \/ /\ PhaseEnds("infer", "UnresolvedTypeError")
          /\ passes' = 0
          /\ UNCHANGED unresolved
    /\ UNCHANGED <<registry, py_class, class_dict, methods, attribute_table,
                   i, runs, result>>
    /\ UNCHANGED validate_vars
    /\ UNCHANGED capture_vars
    /\ UNCHANGED descr_vars

\* extension_compiler.finalize_tables()
FinalizeTables ==
    /\ pc = "finalize_tables"
    /\ LET parent_attrs == ParentAttributes(registry, py_class)
           parent_pointers == get_method_pointers(registry, py_class).table
       IN IF AttributeConflict(parent_attrs, py_class.attrs)
          THEN /\ PhaseEnds("finalize_tables", "ConflictError")
               /\ UNCHANGED <<methods, attribute_table>>
          ELSE \/ /\ Range(py_class.methods) \cap Names(parent_pointers) # {}
                  /\ PhaseEnds("finalize_tables", "SlotConflictError")
                  /\ UNCHANGED <<methods, attribute_table>>
               \/ /\ PhaseEnds("finalize_tables", "none")
                  /\ attribute_table' = finalize(parent_attrs, py_class.attrs)
                  /\ methods' = AssignSlots(py_class.methods, parent_pointers)
    /\ UNCHANGED <<registry, py_class, class_dict, i, runs, result>>
    /\ UNCHANGED infer_vars
    /\ UNCHANGED validate_vars
    /\ UNCHANGED capture_vars
    /\ UNCHANGED descr_vars

\* extension_compiler.validate()
Validate ==
    /\ pc = "validate"
    /\ \E F \in SUBSET Range(Validators) :
          LET done == RunValidators(Validators, F, <<>>, <<>>)
          IN  /\ failing' = F
              /\ validated' = done.validated
              /\ violations' = done.violations
              /\ PhaseEnds("validate",
                           IF done.violations = <<>> THEN "none"
                           ELSE "ValidationError")
    /\ UNCHANGED <<registry, py_class, class_dict, methods, attribute_table,
                   i, runs, result>>
    /\ UNCHANGED infer_vars
    /\ UNCHANGED capture_vars
    /\ UNCHANGED descr_vars

\* extension_compiler.compile() is called and enters compile_methods.
CompileCall ==
    /\ pc = "compile"
    /\ pc' = "compile_methods"
    /\ i' = 0
    /\ phase_log' = Append(phase_log, Log("call", "compile"))
    /\ UNCHANGED <<registry, py_class, class_dict, methods, attribute_table,
                   runs, error, result>>
    /\ UNCHANGED infer_vars
    /\ UNCHANGED validate_vars
    /\ UNCHANGED capture_vars
    /\ UNCHANGED descr_vars

\* compile_methods, lines 91-94: slot i is not defined in the class body.
\* inherit_method is called; the name method_pointers of line 93 is bound
\* neither in compile_methods nor in the module, so the append raises
\* NameError.  Either exception leaves compile and create_extension.
InheritSlot ==
    /\ pc = "compile_methods"
    /\ i < Len(methods)
    /\ methods[i + 1].name \notin DOMAIN class_dict
    /\ LET args == InheritArgs(methods, i)
           got == inherit_method(get_method_pointers(registry, py_class),
                                 args.method_name, args.slot_idx)
       IN error' = IF got.raises # "none"
                   THEN [type |-> got.raises, method |-> methods[i + 1].name,
                         origin |-> "inherit_method"]
                   ELSE [type |-> "NameError", method |-> methods[i + 1].name,
                         origin |-> "method_pointers"]
    /\ phase_log' = Append(phase_log, Log("raise", "compile"))
    /\ pc' = AfterPhase("compile", TRUE)
    /\ UNCHANGED <<registry, py_class, class_dict, methods, attribute_table,
                   i, runs, result>>
    /\ UNCHANGED infer_vars
    /\ UNCHANGED validate_vars
    /\ UNCHANGED capture_vars
    /\ UNCHANGED descr_vars

\* compile_methods, lines 96-109: slot i is defined in the class body and
\* the compile pipeline is run for it.
CompileSlot ==
    /\ pc = "compile_methods"
    /\ i < Len(methods)
    /\ methods[i + 1].name \in DOMAIN class_dict
    /\ LET name == methods[i + 1].name
       IN /\ runs' = [runs EXCEPT ![name] = @ + 1]
          /\ \/ \* pipeline.run_env raises
                /\ error' = PipelineFailure(name)
                /\ pc' = RunEnvRaised(i).pc
                /\ i' = RunEnvRaised(i).i
                /\ phase_log' = IF pc' = "raised"
                                THEN Append(phase_log, Log("raise", "compile"))
                                ELSE phase_log
                /\ UNCHANGED <<registry, class_dict, methods>>
             \/ \* pipeline.run_env returns
                /\ LET w == MethodWrite(methods, registry, py_class, i,
                                        EntryPoint(CurId, name))
                   IN /\ methods' = w.methods
                      /\ registry' = w.registry
                /\ class_dict' = WrapEntry(class_dict, name)
                /\ i' = i + 1
                /\ UNCHANGED <<pc, phase_log, error>>
    /\ UNCHANGED <<py_class, attribute_table, result>>
    /\ UNCHANGED infer_vars
    /\ UNCHANGED validate_vars
    /\ UNCHANGED capture_vars
    /\ UNCHANGED descr_vars

\* compile_methods has handled every slot: compile() builds the vtable and
\* the extension type, and create_extension returns it (lines 153-155).
CompileReturn ==
    /\ pc = "compile_methods"
    /\ LoopDone(i, methods)
    /\ registry' = Append(registry,
                          build_extension_type(py_class, attribute_table, methods))
    /\ result' = CurId
    /\ phase_log' = Append(phase_log, Log("return", "compile"))
    /\ pc' = AfterPhase("compile", FALSE)
    /\ UNCHANGED <<py_class, class_dict, methods, attribute_table, i, runs,
                   error>>
    /\ UNCHANGED infer_vars
    /\ UNCHANGED validate_vars
    /\ UNCHANGED capture_vars
    /\ UNCHANGED descr_vars

\* create_extension has returned or raised: its frame, and with it the
\* compiler object and its tables, is gone; the caller has the outcome.
Leave ==
    /\ pc \in {"returned", "raised"}
    /\ pc' = "idle"
    /\ py_class' = NoClass
    /\ class_dict' = <<>>
    /\ methods' = <<>>
    /\ attribute_table' = <<>>
    /\ i' = 0
    /\ runs' = [n \in MethodNames |-> 0]
    /\ phase_log' = <<>>
    /\ error' = NoError
    /\ result' = 0
    /\ passes' = 0
    /\ unresolved' = FALSE
    /\ failing' = {}
    /\ validated' = <<>>
    /\ violations' = <<>>
    /\ UNCHANGED registry
    /\ UNCHANGED capture_vars
    /\ UNCHANGED descr_vars

Next ==
    \/ Start
    \/ Infer
    \/ FinalizeTables
    \/ Validate
    \/ CompileCall
    \/ InheritSlot
    \/ CompileSlot
    \/ CompileReturn
    \/ Leave

Spec == Init /\ [][Next]_vars

\* create_extension runs synchronously on one thread: a run that can take
\* a step takes it.
FairSpec == Spec /\ WF_vars(Next)

----------------------------------------------------------------------------
\* Properties.

\* Positions of the entry e in the phase log.
LogPositions(e) == {k \in 1..Len(phase_log) : phase_log[k] = e}

Logged(e) == LogPositions(e) # {}

\* C1: in every run of create_extension the phases are called in the order
\* infer, finalize_tables, validate, compile, each at most once and none
\* skipped: a phase other than infer is called only after the phase before
\* it has returned, and an extension type is returned only after compile
\* has returned.
C1_PhaseOrder ==
    /\ \A k \in 1..Len(Phases) :
          /\ Cardinality(LogPositions(Log("call", Phases[k]))) <= 1
          /\ \A c \in LogPositions(Log("call", Phases[k])) :
                k > 1 => \E r \in 1..(c - 1) :
                            phase_log[r] = Log("return", Phases[k - 1])
          /\ \A r \in LogPositions(Log("return", Phases[k])) :
                \E c \in 1..(r - 1) : phase_log[c] = Log("call", Phases[k])
    /\ result # 0 => Logged(Log("return", "compile"))
    /\ pc = "returned" => result # 0

\* A run in which all four phases were called and returned.
C1_Witness ==
    /\ pc = "returned"
    /\ result # 0
    /\ phase_log = <<Log("call", "infer"), Log("return", "infer"),
                     Log("call", "finalize_tables"),
                     Log("return", "finalize_tables"),
                     Log("call", "validate"), Log("return", "validate"),
                     Log("call", "compile"), Log("return", "compile")>>

\* C2: when a phase fails, no later phase is run for the class and
\* create_extension returns no extension type: the raise is the last entry
\* of the phase log, nothing is returned and no extension type of the class
\* is registered.
C2_FailureAborts ==
    \A k \in 1..Len(phase_log) :
        phase_log[k][1] = "raise" =>
            /\ k = Len(phase_log)
            /\ pc = "raised"
            /\ result = 0
            /\ error # NoError
            /\ Len(registry) = py_class.parent

\* validate has failed for a class whose parent is finalized.
C2_Witness ==
    /\ pc = "raised"
    /\ error.type = "ValidationError"
    /\ py_class.parent # NoParent
    /\ phase_log[Len(phase_log)] = Log("raise", "validate")

\* compile_methods was entered and its run is over.
CompileMethodsOver ==
    /\ pc \in {"returned", "raised"}
    /\ Logged(Log("call", "compile"))

\* Slot k (from 1) of the table has been handled as compile_methods is
\* meant to handle it.
SlotHandled(k) ==
    LET name == methods[k].name
        parent_pointers == get_method_pointers(registry, py_class).table
    IN IF name \in DOMAIN class_dict
       THEN runs[name] = 1
       ELSE /\ runs[name] = 0
            /\ result # 0
            /\ k <= Len(parent_pointers)
            /\ registry[result].vtab[k] =
                  [name |-> name, pointer |-> parent_pointers[k].pointer]

\* C3: compile_methods runs the pipeline exactly once for every method the
\* class defines, and for every inherited method it runs no pipeline,
\* records the parent's pointer of the same slot and goes on, until all
\* slots are handled (unless the pipeline fails).
C3_AllSlotsHandled ==
    (CompileMethodsOver /\ error.origin # "pipeline.run_env") =>
        /\ pc = "returned"
        /\ i = Len(methods)
        /\ \A k \in 1..Len(methods) : SlotHandled(k)

\* The classes of the registry and the class under compilation once its
\* tables are final, each with the table of its parent.
ParentOf(c) == registry[c].parent

TablesFinal == Logged(Log("return", "finalize_tables"))

\* inherit_method is about to be called for slot i.
InheritCallPending ==
    /\ pc = "compile_methods"
    /\ i < Len(methods)
    /\ methods[i + 1].name \notin DOMAIN class_dict

\* C4: every method the parent declares has, in the child, the slot index
\* it has in the parent, whether the child overrides or inherits it; and
\* whenever inherit_method(method_name, slot_idx) is called the parent's
\* pointer table exists and its entry at slot_idx is named method_name, so
\* that neither assertion of inherit_method ever fails.
C4_SlotIndexKept ==
    /\ \A c \in DOMAIN registry :
          ParentOf(c) # NoParent =>
             \A k \in 1..Len(registry[ParentOf(c)].vtab) :
                /\ k <= Len(registry[c].vtab)
                /\ registry[c].vtab[k].name = registry[ParentOf(c)].vtab[k].name
    /\ TablesFinal =>
          LET parent_pointers == get_method_pointers(registry, py_class).table
          IN \A k \in 1..Len(parent_pointers) :
                /\ k <= Len(methods)
                /\ methods[k].name = parent_pointers[k].name
    /\ InheritCallPending =>
          LET args == InheritArgs(methods, i)
              pp == get_method_pointers(registry, py_class)
          IN /\ ~pp.is_none
             /\ args.slot_idx < Len(pp.table)
             /\ pp.table[args.slot_idx + 1].name = args.method_name
    /\ error.type \notin {"AssertionError", "IndexError"}

\* inherit_method was called for slot 1 of a class that overrides slot 0,
\* and returned the parent's pointer.
C4_Witness ==
    /\ pc = "raised"
    /\ error.origin = "method_pointers"
    /\ i = 1
    /\ methods[1].name \in DOMAIN class_dict
    /\ methods[2].name \notin DOMAIN class_dict

IsPrefix(a, b) == Len(a) <= Len(b) /\ \A k \in 1..Len(a) : b[k] = a[k]

RECURSIVE Ancestors(_)
Ancestors(c) ==
    IF ParentOf(c) = NoParent THEN {}
    ELSE {ParentOf(c)} \cup Ancestors(ParentOf(c))

\* C5: after finalize_tables the attribute table of a class starts with
\* the attributes of its parent, each at the offset it has in the parent,
\* followed by the new attributes of the class; along a chain of any
\* length no subclass changes the offset of an inherited attribute.
C5_ParentAttributesFirst ==
    /\ \A c \in DOMAIN registry : \A a \in Ancestors(c) :
          IsPrefix(registry[a].attributes, registry[c].attributes)
    /\ TablesFinal =>
          LET parent_attrs == ParentAttributes(registry, py_class)
              added == NewDecls(parent_attrs, py_class.attrs)
          IN /\ IsPrefix(parent_attrs, attribute_table)
             /\ Len(attribute_table) = Len(parent_attrs) + Len(added)
             /\ \A k \in 1..Len(added) :
                   /\ attribute_table[Len(parent_attrs) + k].name = added[k].name
                   /\ attribute_table[Len(parent_attrs) + k].type = added[k].type
                   /\ attribute_table[Len(parent_attrs) + k].offset
                         >= NextOffset(parent_attrs)
             /\ \A k \in 2..Len(attribute_table) :
                   attribute_table[k].offset > attribute_table[k - 1].offset

\* A chain of three finalized classes: the first declares one attribute,
\* the second adds one, the third has both at the offsets of its ancestors.
C5_Witness ==
    /\ Len(registry) = 3
    /\ Len(registry[1].attributes) = 1
    /\ Len(registry[2].attributes) = 2
    /\ Len(registry[3].attributes) = 2
    /\ registry[3].attributes[2].offset = FieldSize

\* C6: whenever create_extension returns an extension type, every slot of
\* its vtable holds a pointer: the pointer of a method compiled for this
\* class or the pointer of the parent's table at the same index.
C6_SlotsPopulated ==
    \A c \in DOMAIN registry : \A k \in 1..Len(registry[c].vtab) :
        LET slot == registry[c].vtab[k]
        IN /\ slot.pointer # NoPointer
           /\ \/ slot.pointer = EntryPoint(c, slot.name)
              \/ /\ ParentOf(c) # NoParent
                 /\ k <= Len(registry[ParentOf(c)].vtab)
                 /\ slot.pointer = registry[ParentOf(c)].vtab[k].pointer

\* create_extension has returned the type of a child class with two slots.
C6_Witness ==
    /\ pc = "returned"
    /\ result # 0
    /\ py_class.parent # NoParent
    /\ Len(registry[result].vtab) = 2

\* C7: compiling a child class, whether it succeeds or fails, leaves every
\* finalized extension type as it was: no step changes the attributes, the
\* slot layout or the method pointers of a type of the registry.
C7_ParentUnchanged ==
    [][\A c \in DOMAIN registry :
          c \in DOMAIN registry' /\ registry'[c] = registry[c]]_vars

\* The compilation of a child class failed in the pipeline after a pointer
\* of the child had been stored.
C7_Witness ==
    /\ pc = "raised"
    /\ py_class.parent # NoParent
    /\ error.origin = "pipeline.run_env"
    /\ i = 1
    /\ methods[1].lfunc_pointer # NoPointer

\* The slots (from 1) of the parent's table that the class overrides.
OverriddenSlots ==
    {k \in 1..Len(get_method_pointers(registry, py_class).table) :
        get_method_pointers(registry, py_class).table[k].name
            \in DOMAIN class_dict}

\* C8: when a child overrides the method of parent slot i, compile adds no
\* slot for the override (the child's table has the parent's slots plus one
\* per new method) and slot i of the child's table holds the pointer of the
\* child's freshly compiled function, stored in place, not the parent's.
C8_OverrideInPlace ==
    (py_class.parent # NoParent /\ Logged(Log("call", "compile"))) =>
        LET parent_pointers == get_method_pointers(registry, py_class).table
            added == Range(py_class.methods) \ Names(parent_pointers)
        IN /\ Len(methods) = Len(parent_pointers) + Cardinality(added)
           /\ \A k \in OverriddenSlots :
                 /\ methods[k].name = parent_pointers[k].name
                 /\ k <= i =>
                       /\ methods[k].lfunc_pointer =
                             EntryPoint(CurId, methods[k].name)
                       /\ methods[k].lfunc_pointer # parent_pointers[k].pointer
                 /\ pc = "returned" =>
                       /\ k <= i
                       /\ registry[result].vtab[k] =
                             [name |-> parent_pointers[k].name,
                              pointer |-> EntryPoint(result, methods[k].name)]
           /\ pc = "returned" => Len(registry[result].vtab) = Len(methods)

\* A child that overrides the only method of its parent has been compiled:
\* one slot, holding the child's pointer.
C8_Witness ==
    /\ pc = "returned"
    /\ py_class.parent # NoParent
    /\ OverriddenSlots = {1}
    /\ Len(registry[py_class.parent].vtab) = 1
    /\ Len(registry[result].vtab) = 1

\* The vtable layout of every class against that of its parent, and the
\* slots of the new methods of the class under compilation.
C9_Layout ==
    /\ \A c \in DOMAIN registry :
          ParentOf(c) # NoParent =>
             LET own == registry[c].vtab
                 par == registry[ParentOf(c)].vtab
             IN /\ Len(own) >= Len(par)
                /\ \A k \in 1..Len(par) : own[k].name = par[k].name
                /\ \A a, b \in 1..Len(own) : own[a].name = own[b].name => a = b
    /\ TablesFinal =>
          LET parent_pointers == get_method_pointers(registry, py_class).table
              added == SelectNames(py_class.methods,
                          Range(py_class.methods) \ Names(parent_pointers))
          IN /\ Len(methods) = Len(parent_pointers) + Len(added)
             /\ \A j \in 1..Len(added) :
                   methods[Len(parent_pointers) + j].name = added[j]

\* C9: the vtable of a class differs from its parent's only by slots
\* appended after the parent's last slot: a new method gets the next free
\* index, no parent slot is reordered or removed, and the parent's vtable
\* layout and slot contents are untouched.
C9_AppendOnly ==
    /\ []C9_Layout
    /\ [][\A c \in DOMAIN registry :
             c \in DOMAIN registry' /\ registry'[c].vtab = registry[c].vtab]_vars

\* A child of a one-slot parent overrides that slot and adds a new method,
\* which gets index 1.
C9_Witness ==
    /\ pc = "returned"
    /\ py_class.parent # NoParent
    /\ Len(registry[py_class.parent].vtab) = 1
    /\ Len(registry[result].vtab) = 2
    /\ registry[result].vtab[2].name \notin Names(registry[py_class.parent].vtab)

Redeclares ==
    \E d \in Range(py_class.attrs) :
       \E a \in Range(ParentAttributes(registry, py_class)) :
          d.name = a.name /\ d.type # a.type

\* C11: a class that redeclares a parent attribute with an incompatible
\* type fails with ConflictError in infer or finalize_tables: it never
\* gets past finalize_tables, and when the ConflictError is raised no
\* method of the class has been passed to the compile pipeline and
\* compile has not been called.
C11_ConflictBeforeCompile ==
    /\ (pc # "idle" /\ Redeclares) =>
          /\ ~Logged(Log("return", "finalize_tables"))
          /\ ~Logged(Log("call", "compile"))
          /\ pc # "returned"
          /\ \A n \in MethodNames : runs[n] = 0
          /\ Logged(Log("call", "finalize_tables")) =>
                (pc = "raised" /\ error.type = "ConflictError")
    /\ error.type = "ConflictError" =>
          /\ Redeclares
          /\ pc = "raised"
          /\ error.origin \in {"infer", "finalize_tables"}
          /\ \A n \in MethodNames : runs[n] = 0
          /\ \A k \in 1..Len(methods) : methods[k].lfunc_pointer = NoPointer
          /\ result = 0

\* A child that defines methods and redeclares its parent's attribute with
\* another type has failed with ConflictError.
C11_Witness ==
    /\ pc = "raised"
    /\ error.type = "ConflictError"
    /\ py_class.parent # NoParent
    /\ py_class.methods # <<>>
    /\ Redeclares

\* ------------------------------------------------------------------------
\* C12: infer always terminates.  Every step that stays inside infer is one
\* more pass, the number of passes never exceeds the cap MaxInferPasses,
\* infer returns only when every type is concrete, InferenceStalledError is
\* raised exactly when the cap is reached with types still open, and a run
\* that entered infer leaves it.
InferBounded ==
    /\ passes \in 0..MaxInferPasses
    /\ Logged(Log("return", "infer")) => ~unresolved
    /\ error.type = "InferenceStalledError" =>
          /\ pc = "raised"
          /\ error.origin = "infer"
          /\ passes = MaxInferPasses
          /\ unresolved
          /\ ~Logged(Log("return", "infer"))

ValidateOver == Logged(Log("return", "validate")) \/ error.origin = "validate"

C13_ValidationAggregated ==
    /\ ValidateOver =>
          /\ validated = Validators
          /\ Range(violations) = failing
          /\ Len(violations) = Cardinality(failing)
    /\ Logged(Log("return", "validate")) => failing = {}
    /\ error.origin = "validate" =>
          /\ error.type = "ValidationError"
          /\ pc = "raised"
          /\ failing # {}
          /\ Len(SelectSeq(phase_log,
                           LAMBDA l : l = Log("raise", "validate"))) = 1
    /\ ~ValidateOver => validated = <<>> /\ violations = <<>>

\* A class with two independent violations: one error carries both.
C13_Witness ==
    /\ pc = "raised"
    /\ error.type = "ValidationError"
    /\ Len(violations) = 2
    /\ violations[1] # violations[2]

\* ------------------------------------------------------------------------
\* C14: classes are compiled in dependency order.  While a class is being
\* compiled its parent, if it has one, is an extension type a finished
\* compilation has produced, with a pointer in every slot of its vtable, and
\* the class itself is not yet an extension type; an extension type appears
\* only as the last step of the running compilation, and no step changes
\* or removes an extension type that exists, so two compilations never
\* interleave.
ParentComplete ==
    py_class.parent # NoParent =>
       /\ py_class.parent \in DOMAIN registry
       /\ \A k \in DOMAIN registry[py_class.parent].vtab :
             registry[py_class.parent].vtab[k].pointer # NoPointer
       /\ registry[py_class.parent].parent < py_class.parent

DependencyOrder ==
    /\ pc # "idle" => ParentComplete
    /\ pc \in {"infer", "finalize_tables", "validate", "compile",
               "compile_methods", "raised"} => CurId \notin DOMAIN registry
    /\ \A c \in DOMAIN registry : ParentOf(c) < c

C15_AllOrNothing ==
    (CompileMethodsOver /\ pc = "raised") =>
       /\ \A n \in DOMAIN class_dict : class_dict[n] = "function"
       /\ \A k \in 1..Len(methods) : methods[k].lfunc_pointer = NoPointer

-----------------------------------------------------------------------------
\* ir_capture.py

\* The instruction the wrapped builder returns from its method attr.
Instr(attr) == <<"instr", attr>>

\* str(instr): the text of an instruction.
str(instr) == <<"text", instr[2]>>

\* The instructions captured under position q (none: the key is absent).
InstrsAt(cap, q) ==
    IF \E k \in 1..Len(cap) : cap[k].pos = q
    THEN cap[CHOOSE k \in 1..Len(cap) : cap[k].pos = q].instrs
    ELSE <<>>

Keys(cap) == {cap[k].pos : k \in 1..Len(cap)}

\* self.pos as emit reads it (line 29): the instance attribute when
\* update_pos has set it; otherwise __getattr__ (lines 22-25) looks pos up
\* on the wrapped builder, which has it or raises AttributeError.
SelfPos(self_pos, builder_pos) ==
    IF self_pos # <<>> THEN [found |-> TRUE, key |-> self_pos[1]]
    ELSE IF builder_pos # <<>> THEN [found |-> TRUE, key |-> builder_pos[1]]
    ELSE [found |-> FALSE, key |-> 0]

\* self.captured[key].append(result) on the defaultdict (line 29).
Capture(cap, key, r) ==
    IF \E k \in 1..Len(cap) : cap[k].pos = key
    THEN LET k == CHOOSE j \in 1..Len(cap) : cap[j].pos = key
         IN  [cap EXCEPT ![k].instrs = Append(@, r)]
    ELSE Append(cap, [pos |-> key, instrs |-> <<r>>])

\* get_annotations that walks the items in the order of the mapping.
SortItemsUnsorted(items) == items

\* sorted(ir_builder.captured.iteritems()), line 42: by position.
RECURSIVE SortItems(_)
SortItems(items) ==
    IF items = <<>> THEN <<>>
    ELSE LET m == CHOOSE k \in 1..Len(items) :
                     \A j \in 1..Len(items) : items[k].pos <= items[j].pos
         IN  <<items[m]>> \o
             SortItems(SubSeq(items, 1, m - 1) \o
                       SubSeq(items, m + 1, Len(items)))

\* The loops of get_annotations with ir_lineno advanced once per position
\* instead of once per instruction.
RECURSIVE AnnotatePerPosition(_, _, _)
AnnotatePerPosition(items, ir_lineno, acc) ==
    IF items = <<>> THEN acc
    ELSE LET it == Head(items)
             n  == Len(it.instrs)
         IN  AnnotatePerPosition(
                 Tail(items), ir_lineno + 1,
                 [linenomap |-> acc.linenomap @@
                                  (it.pos :> [j \in 1..n |-> ir_lineno]),
                  linemap   |-> (ir_lineno :> str(it.instrs[n])) @@ acc.linemap])

\* The loops of get_annotations, lines 42-46: every instruction of every
\* item gets the next IR line number.
RECURSIVE Annotate(_, _, _)
Annotate(items, ir_lineno, acc) ==
    IF items = <<>> THEN acc
    ELSE LET it == Head(items)
             n  == Len(it.instrs)
         IN  Annotate(
                 Tail(items), ir_lineno + n,
                 [linenomap |-> acc.linenomap @@
                                  (it.pos :> [j \in 1..n |-> ir_lineno + j - 1]),
                  linemap   |-> acc.linemap @@
                                  [l \in ir_lineno..(ir_lineno + n - 1) |->
                                      str(it.instrs[l - ir_lineno + 1])]])

\* get_annotations(ir_builder), lines 36-49.
get_annotations(cap) ==
    Annotate(SortItems(cap), FirstLine, [linenomap |-> <<>>, linemap |-> <<>>])

\* LLVMIRBuilder(builder), lines 15-17: captured is empty and pos is not
\* set.  The wrapped builder has no attribute pos, or has one holding data.
Construct ==
    /\ \E bp \in {<<>>} \cup {<<v>> : v \in BuilderPositions} :
          builder' = [made |-> TRUE, pos |-> bp, calls |-> 0]
    /\ pos' = <<>>
    /\ captured' = <<>>
    /\ held' = {}
    /\ outcome' = NoOutcome
    /\ supplied' = {}
    /\ annotations' = <<>>
    /\ UNCHANGED jit_vars
    /\ UNCHANGED descr_vars

\* update_pos(pos), lines 19-20.
UpdatePos ==
    /\ builder.made
    /\ annotations = <<>>
    /\ \E p \in Positions :
          /\ pos' = <<p>>
          /\ supplied' = supplied \cup {p}
    /\ UNCHANGED <<builder, captured, held, outcome, annotations>>
    /\ UNCHANGED jit_vars
    /\ UNCHANGED descr_vars

\* __getattr__(attr) for a method of the builder, lines 22-32: the closure
\* emit is returned; nothing is called yet.
Fetch ==
    /\ builder.made
    /\ annotations = <<>>
    /\ \E a \in CallableAttrs \ held : held' = held \cup {a}
    /\ UNCHANGED <<builder, pos, captured, outcome, supplied, annotations>>
    /\ UNCHANGED jit_vars
    /\ UNCHANGED descr_vars

\* __getattr__(attr) for a data attribute, lines 22-25: its value is
\* returned.
ReadData ==
    /\ builder.made
    /\ annotations = <<>>
    /\ \E a \in DataAttrs : outcome' = [kind |-> "value", value |-> <<"data", a>>]
    /\ UNCHANGED <<builder, pos, captured, held, supplied, annotations>>
    /\ UNCHANGED jit_vars
    /\ UNCHANGED descr_vars

\* emit(*args, **kwargs), lines 27-30: the builder's method is called, then
\* self.pos is read, the result is appended under it and returned.  When
\* self.pos cannot be read the AttributeError leaves emit after the builder
\* has been called.
Emit ==
    /\ builder.made
    /\ annotations = <<>>
    /\ builder.calls < MaxEmits
    /\ \E a \in held :
          LET r == Instr(a)
              key == SelfPos(pos, builder.pos)
          IN  /\ builder' = [builder EXCEPT !.calls = @ + 1]
              /\ IF key.found
                 THEN /\ captured' = Capture(captured, key.key, r)
                      /\ outcome' = [kind |-> "returned", value |-> r]
                 ELSE /\ captured' = captured
                      /\ outcome' = [kind |-> "raised",
                                     value |-> <<"AttributeError", "pos">>]
    /\ UNCHANGED <<pos, held, supplied, annotations>>
    /\ UNCHANGED jit_vars
    /\ UNCHANGED descr_vars

\* get_annotations(ir_builder) is called once the capture is over.
GetAnnotations ==
    /\ builder.made
    /\ annotations = <<>>
    /\ annotations' = <<get_annotations(captured)>>
    /\ UNCHANGED <<builder, pos, captured, held, outcome, supplied>>
    /\ UNCHANGED jit_vars
    /\ UNCHANGED descr_vars

CaptureNext ==
    \/ Construct
    \/ UpdatePos
    \/ Fetch
    \/ ReadData
    \/ Emit
    \/ GetAnnotations

CaptureSpec == Init /\ [][CaptureNext]_vars

\* The orders in which a mapping with the items of cap may hand them out.
ItemOrders(cap) ==
    {o \in [1..Len(cap) -> Range(cap)] : Range(o) = Range(cap)}

RECURSIVE TotalInstrs(_)
TotalInstrs(cap) ==
    IF cap = <<>> THEN 0 ELSE Len(Head(cap).instrs) + TotalInstrs(Tail(cap))

\* ------------------------------------------------------------------------
\* C16: get_annotations is deterministic with respect to pass order.  What
\* it returns depends only on the instructions recorded per position: in
\* whatever order the positions were first visited, that is in whatever
\* order the mapping hands out its items, the line numbering and the
\* position-to-line map are the same.
C16_OrderIndependent ==
    annotations # <<>> =>
       \A o \in ItemOrders(captured) : get_annotations(o) = annotations[1]

\* Annotations taken of a capture whose positions were first visited in
\* decreasing order, the emissions of the two positions interleaved.
C16_Witness ==
    /\ annotations # <<>>
    /\ Len(captured) = 2
    /\ captured[1].pos > captured[2].pos
    /\ Len(captured[1].instrs) = 2

\* ------------------------------------------------------------------------
\* C17: every call of a builder method through the wrapper calls the
\* builder once, returns the builder's result and appends that result to
\* the end of the list of the position update_pos has set last, leaving the
\* lists of the other positions as they were; reading a data attribute
\* captures nothing.
C17_EmitCaptures ==
    [][/\ builder'.calls = builder.calls + 1 =>
             /\ outcome'.kind = "returned"
             /\ outcome'.value \in {Instr(a) : a \in held}
             /\ pos # <<>> =>
                   /\ InstrsAt(captured', pos[1]) =
                         Append(InstrsAt(captured, pos[1]), outcome'.value)
                   /\ \A q \in (Keys(captured) \cup Keys(captured')) \ {pos[1]} :
                         InstrsAt(captured', q) = InstrsAt(captured, q)
       /\ (builder'.made /\ builder'.calls = builder.calls) =>
             captured' = captured]_vars

\* ------------------------------------------------------------------------
\* C18: get_annotations numbers the captured instructions 1..N without gap
\* or duplicate, N being their total: the line lists of the positions
\* partition 1..N, a smaller position has smaller line numbers than a
\* larger one, within a position the numbers increase in emission order,
\* and each line holds the text of its instruction.
C18_LineNumbers ==
    annotations # <<>> =>
       LET a == annotations[1]
           N == TotalInstrs(captured)
           first == FirstLine
       IN  /\ DOMAIN a.linemap = first..N
           /\ DOMAIN a.linenomap = Keys(captured)
           /\ \A q \in Keys(captured) :
                 /\ Len(a.linenomap[q]) = Len(InstrsAt(captured, q))
                 /\ \A j \in 1..Len(a.linenomap[q]) :
                       /\ a.linenomap[q][j] \in first..N
                       /\ a.linemap[a.linenomap[q][j]] =
                             str(InstrsAt(captured, q)[j])
                       /\ \A k \in 1..(j - 1) :
                             a.linenomap[q][k] < a.linenomap[q][j]
           /\ \A l \in first..N :
                 \E q \in Keys(captured) : l \in Range(a.linenomap[q])
           /\ \A q, r \in Keys(captured) :
                 q < r => \A l \in Range(a.linenomap[q]) :
                             \A m \in Range(a.linenomap[r]) : l < m

\* Annotations of three instructions at two positions, the larger position
\* visited first.
C18_Witness ==
    /\ annotations # <<>>
    /\ TotalInstrs(captured) = 3
    /\ Len(captured) = 2
    /\ captured[1].pos > captured[2].pos
    /\ DOMAIN annotations[1].linemap = 1..3

\* ------------------------------------------------------------------------
\* C19: every captured instruction is recorded under a position an earlier
\* update_pos call supplied; an emit call before any update_pos call adds
\* no entry under another key.
C19_KeysFromUpdatePos == Keys(captured) \subseteq supplied

-----------------------------------------------------------------------------
\* jitclass.py: JitAttributeBuilder.create_descr

\* The value a native integer field holds after v is stored in it: the low
\* NativeBits bits of v, read as a signed number.
Wrap(v) == ((v - MinNative) % (2^NativeBits)) + MinNative

\* setattr on the native record, line 127: an integer is converted to the
\* type of the field, anything else is refused with TypeError.
Convert(value) == [ok |-> value.kind = "int", v |-> Wrap(value.v)]

\* _get(self), lines 124-125.
_get(attrs, attr_name) == attrs[attr_name]

\* _set that stores into every field of the record.
SetEveryField(attrs, attr_name, value) ==
    IF Convert(value).ok
    THEN [f \in DOMAIN attrs |-> Convert(value).v]
    ELSE attrs

\* _set(self, value), lines 126-127.
_set(attrs, attr_name, value) ==
    IF Convert(value).ok
    THEN [attrs EXCEPT ![attr_name] = Convert(value).v]
    ELSE attrs

\* The getter of the descriptor create_descr(f) made is called.
DescrGet ==
    /\ \E f \in NativeFields :
          descr_out' = [kind |-> "returned", value |-> _get(numba_attrs, f)]
    /\ UNCHANGED <<numba_attrs, last_set>>
    /\ UNCHANGED <<jit_vars, capture_vars>>

\* The setter of the descriptor create_descr(f) made is called with value.
DescrSet ==
    /\ \E f \in NativeFields, value \in SetValues :
          /\ numba_attrs' = _set(numba_attrs, f, value)
          /\ IF Convert(value).ok
             THEN /\ descr_out' = NoCall
                  /\ last_set' = [done |-> TRUE, field |-> f, value |-> value.v]
             ELSE /\ descr_out' = [kind |-> "TypeError", value |-> 0]
                  /\ UNCHANGED last_set
    /\ UNCHANGED <<jit_vars, capture_vars>>

DescrNext ==
    \/ DescrGet
    \/ DescrSet

DescrSpec == Init /\ [][DescrNext]_vars

\* ------------------------------------------------------------------------
\* C20 as stated: after a set through the descriptor of a field, a get
\* through the same descriptor returns the value that was set, until the
\* next set.
C20_GetReturnsSetValue ==
    last_set.done => _get(numba_attrs, last_set.field) = last_set.value

\* C20, amended: after a set through the descriptor of a field has
\* returned, a get through the same descriptor returns, until the next set,
\* the value the native field holds, which is the set value converted to
\* the type of the field and is the set value itself whenever the field can
\* represent it; a set that is refused leaves the record as it was; and a
\* set through the descriptor of one field changes no other field.
C20_NativeRoundTrip ==
    /\ [](last_set.done =>
            /\ _get(numba_attrs, last_set.field) = Wrap(last_set.value)
            /\ last_set.value \in MinNative..MaxNative =>
                  _get(numba_attrs, last_set.field) = last_set.value)
    /\ [][/\ descr_out'.kind = "returned" =>
                \E f \in NativeFields : descr_out'.value = numba_attrs[f]
          /\ descr_out'.kind = "TypeError" => numba_attrs' = numba_attrs
          /\ \A f \in NativeFields :
                numba_attrs'[f] # numba_attrs[f] =>
                   /\ last_set'.done /\ last_set'.field = f
                   /\ \A g \in NativeFields \ {f} :
                         numba_attrs'[g] = numba_attrs[g]]_vars

\* A value beyond the range of the field was set while the other field
\* held a value of its own, and the getter has returned what the field holds.
C20_Witness ==
    /\ last_set.done
    /\ last_set.value > MaxNative
    /\ \E g \in NativeFields \ {last_set.field} :
          numba_attrs[g] \notin {0, numba_attrs[last_set.field]}
    /\ descr_out.kind = "returned"
    /\ descr_out.value = Wrap(last_set.value)

====
